---- MODULE Spec2Model ----
(***************************************************************************)
(* Model of the playlist synchroniser of shuffleupagus.                    *)
(*                                                                         *)
(* Two variants of the same run are modelled:                              *)
(*   "desktop"  src/sync.py            sync()                              *)
(*   "android"  src/android/main.py    SyncLayout.download_episodes()      *)
(*              src/android/pocketcasts.py  Episode, download_episode()    *)
(*                                                                         *)
(* File names, uuids and url segments are sequences of one-character       *)
(* strings, so that Episode.filename, Path.suffix and the scanner's        *)
(* regular expression are computed character by character.                 *)
(***************************************************************************)
EXTENDS Integers, Sequences, FiniteSets, TLC

(* ------------------------------ bounds --------------------------------- *)

\* longest "up next" list returned by the remote API
MaxEpisodes == 2
\* largest number of files in the music directory before the first run
MaxFiles == 2
\* number of consecutive runs against the same remote list
MaxRuns == 2
\* size of the ThreadPool (os.cpu_count() on the machine)
Workers == 2

(* --------------------------- input universes --------------------------- *)

\* the episode dicts the API can return: uuid and last url path segment
EpisodeDicts ==
  { [uuid |-> <<"a">>, seg |-> <<"e", ".", "m">>],
    [uuid |-> <<"b">>, seg |-> <<"e", ".", "m">>],
    [uuid |-> <<"a">>, seg |-> <<"e">>] }

\* names of files that may lie in the music directory before the first run
LocalNames ==
  { <<"a", ".", "m">>,
    <<"a", ".", "o">>,
    <<"c", ".", "m">>,
    <<"a">>,
    <<"0", "0", "_", "a", ".", "m">>,
    <<"0", "1", "_", "b", ".", "m">> }

Variants == {"desktop", "android"}

(* ------------------------------ Episode -------------------------------- *)

\* Episode.from_dict(order, dict) for the item at 0-based position order
from_dict(order, d) == [order |-> order, uuid |-> d.uuid, seg |-> d.seg]

\* PocketCasts.up_next: enumerate() numbers the episodes from 0
up_next(response) ==
  [i \in 1..Len(response) |-> from_dict(i - 1, response[i])]

\* position of the last "." of a name, 0 when there is none (str.rfind + 1)
RECURSIVE rfind_dot(_, _)
rfind_dot(name, i) ==
  IF i = 0 THEN 0
  ELSE IF name[i] = "." THEN i ELSE rfind_dot(name, i - 1)

\* pathlib's PurePath.suffix: the last dot and what follows, unless the
\* dot is the first or the last character of the name
suffix(name) ==
  LET p == rfind_dot(name, Len(name))
  IN  IF 1 < p /\ p < Len(name) THEN SubSeq(name, p, Len(name)) ELSE << >>

\* Episode.extension
extension(episode) == suffix(episode.seg)

\* Episode.filename: f"{self.uuid}{self.extension}"
filename(episode) == episode.uuid \o extension(episode)

(* ------------------------------ scanner -------------------------------- *)

\* the character class [a-f0-9-]
IdChars ==
  {"a", "b", "c", "d", "e", "f", "-",
   "0", "1", "2", "3", "4", "5", "6", "7", "8", "9"}

\* length of the longest prefix of name made of class characters (the
\* greedy group; a shorter prefix can never be followed by a literal dot)
RECURSIVE group_len(_, _)
group_len(name, k) ==
  IF k < Len(name) /\ name[k + 1] \in IdChars
  THEN group_len(name, k + 1) ELSE k

\* filename_regex.match(name) for r"([a-f0-9-]+)\..+": one or more class
\* characters, a dot, and at least one more character that is not a line
\* feed (no re.DOTALL); anchored at the start only
filename_regex_match(name) ==
  LET k == group_len(name, 0)
  IN  /\ k >= 1
      /\ Len(name) >= k + 2
      /\ name[k + 1] = "."
      /\ name[k + 2] # "\n"

\* filename_match.group(1)
group1(name) == SubSeq(name, 1, group_len(name, 0))

(* ------------------------------- state --------------------------------- *)

VARIABLES
  variant,              \* which program runs
  response,             \* episode dicts of the remote "up next" list
  picked,               \* positions of the list the user ticked
  dir,                  \* music directory: file name -> content
  tmp,                  \* uuids whose call of this run has a temporary file
  stuck,                \* uuids whose temporary file unlink could not remove
  run,                  \* number of the current run
  pc,                   \* position of the main thread in the run
  pocketcasts_by_uuid,  \* uuid -> Episode
  ipod_by_uuid,         \* uuid -> file name
  uuids_to_delete,
  uuids_to_download,
  undeleted,            \* uuids the delete loop has still to visit
  task,                 \* uuid -> state of its download_episode call
  fault,                \* uuid -> step of its own task that failed
  dir0,                 \* directory at the start of the current run
  prev                  \* what the previous run did

vars == << variant, response, picked, dir, tmp, stuck, run, pc,
           pocketcasts_by_uuid, ipod_by_uuid, uuids_to_delete,
           uuids_to_download, undeleted, task, fault, dir0, prev >>

Empty == << >>

\* all sequences over S of length at most n
SeqUpTo(S, n) == UNION { [1..k -> S] : k \in 0..n }

\* subsets of S with at most n elements
SubsetsUpTo(S, n) == { T \in SUBSET S : Cardinality(T) <= n }

\* write content c at name n, creating or replacing the file
WriteFile(d, n, c) ==
  [m \in DOMAIN d \cup {n} |-> IF m = n THEN c ELSE d[m]]

\* remove name n
RemoveFile(d, n) == [m \in DOMAIN d \ {n} |-> d[m]]

(* ------------------------------- Init ---------------------------------- *)

Init ==
  /\ variant \in Variants
  /\ response \in SeqUpTo(EpisodeDicts, MaxEpisodes)
  /\ picked \in SUBSET (1..Len(response))
  /\ \E names \in SubsetsUpTo(LocalNames, MaxFiles) :
       dir = [n \in names |-> "old"]
  /\ tmp = {}
  /\ stuck = {}
  /\ run = 1
  /\ pc = "start"
  /\ pocketcasts_by_uuid = Empty
  /\ ipod_by_uuid = Empty
  /\ uuids_to_delete = {}
  /\ uuids_to_download = {}
  /\ undeleted = {}
  /\ task = Empty
  /\ fault = Empty
  /\ dir0 = dir
  /\ prev = [failed |-> {}, succeeded |-> TRUE]

(* ----------------------- selection and plan --------------------------- *)

Max(S) == CHOOSE x \in S : \A y \in S : y <= x

\* positions of the list that go into pocketcasts_by_uuid.  The desktop
\* prompt returns the ticked uuids and the list is filtered by uuid; the
\* android layout returns the episodes of the ticked widgets.
selected_positions(v, episodes, ticked) ==
  IF v = "desktop"
  THEN { i \in 1..Len(episodes) :
           \E j \in ticked : episodes[j].uuid = episodes[i].uuid }
  ELSE ticked

\* the dict comprehension {episode.uuid: episode for episode in ...}: a
\* later episode replaces an earlier one with the same uuid
by_uuid(episodes, positions) ==
  [u \in { episodes[i].uuid : i \in positions } |->
     episodes[Max({ i \in positions : episodes[i].uuid = u })]]

\* a delete set that forgets to spare the remote uuids
to_delete_everything(uuids_on_ipod, uuids_from_pocketcasts) ==
  uuids_on_ipod

\* uuids_on_ipod - uuids_from_pocketcasts
to_delete(uuids_on_ipod, uuids_from_pocketcasts) ==
  uuids_on_ipod \ uuids_from_pocketcasts

\* a download set that forgets what is already on disk
to_download_everything(uuids_on_ipod, uuids_from_pocketcasts) ==
  uuids_from_pocketcasts

\* uuids_from_pocketcasts - uuids_on_ipod
to_download(uuids_on_ipod, uuids_from_pocketcasts) ==
  uuids_from_pocketcasts \ uuids_on_ipod

\* Episode.path, as a name in the music directory
path(u) == filename(pocketcasts_by_uuid[u])

\* the files of the directory whose name the scanner parses
parsable(d) == { n \in DOMAIN d : filename_regex_match(n) }

PlanVarsUnchanged ==
  UNCHANGED << pocketcasts_by_uuid, ipod_by_uuid, uuids_to_delete,
               uuids_to_download, undeleted, task, fault >>

InputsUnchanged == UNCHANGED << variant, response, picked >>

(* ------------------------------ main thread ---------------------------- *)

\* a setup step that may also fail once the delete loop has begun, as it
\* would if the remote list were fetched after the files are unlinked
FatalSetupLate ==
  /\ pc \in {"start", "delete"}
  /\ pc' = "fatal"
  /\ InputsUnchanged /\ PlanVarsUnchanged
  /\ UNCHANGED << dir, tmp, stuck, run, dir0, prev >>

\* pocket_casts(), api.podcasts(), api.up_next(), mkdir() or iterdir()
\* raises: the run ends before anything is changed
FatalSetup ==
  /\ pc = "start"
  /\ pc' = "fatal"
  /\ InputsUnchanged /\ PlanVarsUnchanged
  /\ UNCHANGED << dir, tmp, stuck, run, dir0, prev >>

\* android only: log is not defined in main.py, so the first file whose
\* name does not parse ends the handler with a NameError
ScanNameError ==
  /\ pc = "start"
  /\ variant = "android"
  /\ parsable(dir) # DOMAIN dir
  /\ pc' = "aborted"
  /\ InputsUnchanged /\ PlanVarsUnchanged
  /\ UNCHANGED << dir, tmp, stuck, run, dir0, prev >>

\* selection, scan of the directory and the two set differences.  When
\* several files parse to one uuid the file iterdir() yields last stays in
\* the index, and iterdir() promises no order.
Reconcile ==
  /\ pc = "start"
  /\ variant = "android" => parsable(dir) = DOMAIN dir
  /\ LET episodes == up_next(response)
         remote   == by_uuid(episodes,
                             selected_positions(variant, episodes, picked))
         ids      == { group1(n) : n \in parsable(dir) }
     IN  \E index \in [ids -> parsable(dir)] :
           /\ \A u \in ids : group1(index[u]) = u
           /\ pocketcasts_by_uuid' = remote
           /\ ipod_by_uuid' = index
           /\ uuids_to_delete' = to_delete(ids, DOMAIN remote)
           /\ uuids_to_download' = to_download(ids, DOMAIN remote)
           /\ undeleted' = to_delete(ids, DOMAIN remote)
           /\ task' = [u \in to_download(ids, DOMAIN remote) |-> "pending"]
           /\ fault' = [u \in to_download(ids, DOMAIN remote) |-> "none"]
  /\ pc' = "delete"
  /\ InputsUnchanged
  /\ UNCHANGED << dir, tmp, stuck, run, dir0, prev >>

\* one turn of "for uuid in uuids_to_delete: ipod_by_uuid[uuid].unlink()"
Unlink(u) ==
  /\ pc = "delete"
  /\ u \in undeleted
  /\ dir' = RemoveFile(dir, ipod_by_uuid[u])
  /\ undeleted' = undeleted \ {u}
  /\ InputsUnchanged
  /\ UNCHANGED << tmp, stuck, run, pc, pocketcasts_by_uuid, ipod_by_uuid,
                  uuids_to_delete, uuids_to_download, task, fault,
                  dir0, prev >>

\* unlink() raises (permission denied): nothing catches it, the run ends
UnlinkError(u) ==
  /\ pc = "delete"
  /\ u \in undeleted
  /\ pc' = "aborted"
  /\ InputsUnchanged /\ PlanVarsUnchanged
  /\ UNCHANGED << dir, tmp, stuck, run, dir0, prev >>

\* the delete loop is over: episodes_to_download is built and the pool
\* (desktop) or the generator (android) is created
EnterPool ==
  /\ pc = "delete"
  /\ undeleted = {}
  /\ pc' = "download"
  /\ InputsUnchanged /\ PlanVarsUnchanged
  /\ UNCHANGED << dir, tmp, stuck, run, dir0, prev >>

(* --------------------------- download_episode -------------------------- *)

\* states of a call between its start and its return
Active == {"fetching", "fetched", "tempwritten", "transcoding", "exc", "ok"}

Returned == {"retTrue", "retFalse"}

Collected == {"doneTrue", "doneFalse"}

\* a pool that is created before the delete loop
PoolOpenEarly == pc \in {"delete", "download"}

\* the pool hands out work only inside "with ThreadPool() as pool"
PoolOpen == pc = "download"

\* a pool that starts a thread for every episode
WorkerAlwaysFree == TRUE

\* a worker is free.  The desktop pool has Workers threads; the android
\* generator runs one call at a time and starts the next one only after the
\* loop body has handled the previous result.
WorkerFree ==
  IF variant = "desktop"
  THEN Cardinality({ v \in DOMAIN task : task[v] \in Active }) < Workers
  ELSE \A v \in DOMAIN task : task[v] \in {"pending"} \cup Collected

TaskStep(u, from, to) ==
  /\ u \in DOMAIN task
  /\ task[u] = from
  /\ task' = [task EXCEPT ![u] = to]

TaskFrame ==
  /\ InputsUnchanged
  /\ UNCHANGED << run, pc, pocketcasts_by_uuid, ipod_by_uuid,
                  uuids_to_delete, uuids_to_download, undeleted, dir0, prev >>

\* a worker takes the episode and calls requests.get
Start(u) ==
  /\ PoolOpen
  /\ WorkerFree
  /\ TaskStep(u, "pending", "fetching")
  /\ TaskFrame
  /\ UNCHANGED << dir, tmp, stuck, fault >>

\* requests.get returns the content
Fetch(u) ==
  /\ TaskStep(u, "fetching", "fetched")
  /\ TaskFrame
  /\ UNCHANGED << dir, tmp, stuck, fault >>

\* a download_episode without its except clause: the exception of
\* requests.get leaves the call and ends the run
FetchErrorEscapes(u) ==
  /\ u \in DOMAIN task
  /\ task[u] = "fetching"
  /\ task' = [task EXCEPT ![u] = "exc"]
  /\ fault' = [fault EXCEPT ![u] = "fetch"]
  /\ pc' = "aborted"
  /\ InputsUnchanged
  /\ UNCHANGED << dir, tmp, stuck, run, pocketcasts_by_uuid, ipod_by_uuid,
                  uuids_to_delete, uuids_to_download, undeleted, dir0, prev >>

\* requests.get raises
FetchError(u) ==
  /\ TaskStep(u, "fetching", "exc")
  /\ fault' = [fault EXCEPT ![u] = "fetch"]
  /\ TaskFrame
  /\ UNCHANGED << dir, tmp, stuck >>

\* the temporary file is created, written and closed
TempWrite(u) ==
  /\ TaskStep(u, "fetched", "tempwritten")
  /\ tmp' = tmp \cup {u}
  /\ UNCHANGED stuck
  /\ TaskFrame
  /\ UNCHANGED << dir, fault >>

\* NamedTemporaryFile raises: there is no temporary file
TempCreateError(u) ==
  /\ TaskStep(u, "fetched", "exc")
  /\ fault' = [fault EXCEPT ![u] = "temp"]
  /\ TaskFrame
  /\ UNCHANGED << dir, tmp, stuck >>

\* temp_file.write raises: the temporary file exists
TempWriteError(u) ==
  /\ TaskStep(u, "fetched", "exc")
  /\ tmp' = tmp \cup {u}
  /\ UNCHANGED stuck
  /\ fault' = [fault EXCEPT ![u] = "temp"]
  /\ TaskFrame
  /\ UNCHANGED dir

\* ffmpeg takes name n as its output.  speedup() gives ffmpeg neither
\* overwrite_output nor a format: ffmpeg picks the container from the
\* extension of the name and does not replace a file that is there
OutputAccepted(d, n) == n \notin DOMAIN d /\ suffix(n) # << >>

\* what speedup() leaves at Episode.path once ffmpeg has opened its
\* output: a new file, and nothing when ffmpeg does not take the name
OutputOpened(d, n) ==
  IF OutputAccepted(d, n) THEN WriteFile(d, n, "partial") ELSE d

\* a speedup() that forces its output (overwrite_output and a given
\* format): whatever is at Episode.path is replaced
TranscodeStartForced(u) ==
  /\ variant = "desktop"
  /\ TaskStep(u, "tempwritten", "transcoding")
  /\ dir' = WriteFile(dir, path(u), "partial")
  /\ TaskFrame
  /\ UNCHANGED << tmp, stuck, fault >>

\* desktop: ffmpeg opens its output, which is Episode.path itself
TranscodeStart(u) ==
  /\ variant = "desktop"
  /\ TaskStep(u, "tempwritten", "transcoding")
  /\ OutputAccepted(dir, path(u))
  /\ dir' = OutputOpened(dir, path(u))
  /\ TaskFrame
  /\ UNCHANGED << tmp, stuck, fault >>

\* desktop: ffmpeg fails before it opens its output
TranscodeRefused(u) ==
  /\ variant = "desktop"
  /\ TaskStep(u, "tempwritten", "exc")
  /\ fault' = [fault EXCEPT ![u] = "transcode"]
  /\ TaskFrame
  /\ UNCHANGED << dir, tmp, stuck >>

\* desktop: ffmpeg ends well, the output is whole
TranscodeFinish(u) ==
  /\ variant = "desktop"
  /\ TaskStep(u, "transcoding", "ok")
  /\ dir' = WriteFile(dir, path(u), "full")
  /\ TaskFrame
  /\ UNCHANGED << tmp, stuck, fault >>

\* a download_episode that lets the error of ffmpeg leave the call: the
\* exception comes out of the pool and ends the run
TranscodeErrorEscapes(u) ==
  /\ variant = "desktop"
  /\ u \in DOMAIN task
  /\ task[u] = "transcoding"
  /\ task' = [task EXCEPT ![u] = "exc"]
  /\ fault' = [fault EXCEPT ![u] = "transcode"]
  /\ pc' = "aborted"
  /\ InputsUnchanged
  /\ UNCHANGED << dir, tmp, stuck, run, pocketcasts_by_uuid, ipod_by_uuid,
                  uuids_to_delete, uuids_to_download, undeleted, dir0, prev >>

\* desktop: ffmpeg fails while it writes; what it wrote stays
TranscodeError(u) ==
  /\ variant = "desktop"
  /\ TaskStep(u, "transcoding", "exc")
  /\ fault' = [fault EXCEPT ![u] = "transcode"]
  /\ TaskFrame
  /\ UNCHANGED << dir, tmp, stuck >>

\* android: os.path has no attribute rename, the call always raises
MoveError(u) ==
  /\ variant = "android"
  /\ TaskStep(u, "tempwritten", "exc")
  /\ fault' = [fault EXCEPT ![u] = "move"]
  /\ TaskFrame
  /\ UNCHANGED << dir, tmp, stuck >>

\* a finally clause that forgets the temporary file
FinallyKeepsTemp(u) ==
  /\ u \in DOMAIN task
  /\ task[u] \in {"exc", "ok"}
  /\ task' = [task EXCEPT ![u] = IF task[u] = "ok" THEN "retTrue"
                                                   ELSE "retFalse"]
  /\ TaskFrame
  /\ UNCHANGED << dir, tmp, stuck, fault >>

\* the finally clause unlinks the temporary file of the call (or raises
\* on the unbound name when none was made, which is swallowed), then the
\* call returns (False, episode) after an exception and (True, episode)
\* otherwise
Finally(u) ==
  /\ u \in DOMAIN task
  /\ task[u] \in {"exc", "ok"}
  /\ task' = [task EXCEPT ![u] = IF task[u] = "ok" THEN "retTrue"
                                                   ELSE "retFalse"]
  /\ tmp' = tmp \ {u}
  /\ UNCHANGED stuck
  /\ TaskFrame
  /\ UNCHANGED << dir, fault >>

\* os.unlink of the temporary file raises: "except Exception: pass"
\* swallows it, the file stays and the call returns as above
FinallyUnlinkError(u) ==
  /\ u \in DOMAIN task
  /\ task[u] \in {"exc", "ok"}
  /\ u \in tmp
  /\ task' = [task EXCEPT ![u] = IF task[u] = "ok" THEN "retTrue"
                                                   ELSE "retFalse"]
  /\ stuck' = stuck \cup {u}
  /\ TaskFrame
  /\ UNCHANGED << dir, tmp, fault >>

(* --------------------------- result handling --------------------------- *)

\* a loop that puts a failed episode back into the pool
CollectFailedRetry(u) ==
  /\ TaskStep(u, "retFalse", "pending")
  /\ TaskFrame
  /\ UNCHANGED << dir, tmp, stuck, fault >>

\* the loop receives (False, episode): nothing is done with it
CollectFailed(u) ==
  /\ TaskStep(u, "retFalse", "doneFalse")
  /\ TaskFrame
  /\ UNCHANGED << dir, tmp, stuck, fault >>

\* desktop: the loop receives (True, episode) and saves the tags
CollectTagged(u) ==
  /\ variant = "desktop"
  /\ TaskStep(u, "retTrue", "doneTrue")
  /\ dir' = WriteFile(dir, path(u), "tagged")
  /\ TaskFrame
  /\ UNCHANGED << tmp, stuck, fault >>

\* desktop: the loop receives (True, episode), EasyID3 raises and the
\* exception is logged
CollectTagError(u) ==
  /\ variant = "desktop"
  /\ TaskStep(u, "retTrue", "doneTrue")
  /\ TaskFrame
  /\ UNCHANGED << dir, tmp, stuck, fault >>

\* every result has been handled: the run returns
Return ==
  /\ pc = "download"
  /\ \A u \in DOMAIN task : task[u] \in Collected
  /\ pc' = "done"
  /\ InputsUnchanged /\ PlanVarsUnchanged
  /\ UNCHANGED << dir, tmp, stuck, run, dir0, prev >>

\* the program is run again against the same remote list; the temporary
\* files of the run that ended are not followed any further
NextRun ==
  /\ pc = "done"
  /\ run < MaxRuns
  /\ run' = run + 1
  /\ pc' = "start"
  /\ prev' = [failed    |-> { u \in DOMAIN task : task[u] = "doneFalse" },
              succeeded |-> \A u \in DOMAIN task : task[u] = "doneTrue"]
  /\ dir0' = dir
  /\ pocketcasts_by_uuid' = Empty
  /\ ipod_by_uuid' = Empty
  /\ uuids_to_delete' = {}
  /\ uuids_to_download' = {}
  /\ undeleted' = {}
  /\ task' = Empty
  /\ fault' = Empty
  /\ tmp' = {}
  /\ stuck' = {}
  /\ InputsUnchanged
  /\ UNCHANGED dir

(* ---------------------------- specification ---------------------------- *)

\* episodes with distinct uuids, for a list with more episodes to
\* download than the pool has workers
PoolDicts ==
  << [uuid |-> <<"a">>, seg |-> <<"e", ".", "m">>],
     [uuid |-> <<"b">>, seg |-> <<"e", ".", "m">>],
     [uuid |-> <<"d">>, seg |-> <<"e", ".", "m">>] >>

\* every uuid the model can meet
Uuids ==
  { d.uuid : d \in EpisodeDicts } \cup { group1(n) : n \in LocalNames }
    \cup { PoolDicts[i].uuid : i \in 1..Len(PoolDicts) }

Next ==
  \/ FatalSetup
  \/ ScanNameError
  \/ Reconcile
  \/ \E u \in Uuids : Unlink(u)
  \/ \E u \in Uuids : UnlinkError(u)
  \/ EnterPool
  \/ \E u \in Uuids : Start(u)
  \/ \E u \in Uuids : Fetch(u)
  \/ \E u \in Uuids : FetchError(u)
  \/ \E u \in Uuids : TempWrite(u)
  \/ \E u \in Uuids : TempCreateError(u)
  \/ \E u \in Uuids : TempWriteError(u)
  \/ \E u \in Uuids : TranscodeStart(u)
  \/ \E u \in Uuids : TranscodeRefused(u)
  \/ \E u \in Uuids : TranscodeFinish(u)
  \/ \E u \in Uuids : TranscodeError(u)
  \/ \E u \in Uuids : MoveError(u)
  \/ \E u \in Uuids : Finally(u)
  \/ \E u \in Uuids : FinallyUnlinkError(u)
  \/ \E u \in Uuids : CollectFailed(u)
  \/ \E u \in Uuids : CollectTagged(u)
  \/ \E u \in Uuids : CollectTagError(u)
  \/ Return
  \/ NextRun

Spec == Init /\ [][Next]_vars

(* ------------------- a list longer than the pool ----------------------- *)

\* the files that may lie in the directory in these runs: one of an episode
\* that left the list and one whose name ends in a line feed
PoolNames == { <<"c", ".", "m">>, <<"a", ".", "\n">> }

\* every episode of the list of distinct uuids is ticked
InitPool ==
  /\ variant \in Variants
  /\ response = PoolDicts
  /\ picked = 1..Len(response)
  /\ \E names \in SubsetsUpTo(PoolNames, MaxFiles) :
       dir = [n \in names |-> "old"]
  /\ tmp = {}
  /\ stuck = {}
  /\ run = 1
  /\ pc = "start"
  /\ pocketcasts_by_uuid = Empty
  /\ ipod_by_uuid = Empty
  /\ uuids_to_delete = {}
  /\ uuids_to_download = {}
  /\ undeleted = {}
  /\ task = Empty
  /\ fault = Empty
  /\ dir0 = dir
  /\ prev = [failed |-> {}, succeeded |-> TRUE]

SpecPool == InitPool /\ [][Next]_vars

\* the steps of the workers and of the loop that receives their results
PoolStep ==
  \/ \E u \in Uuids : Start(u)
  \/ \E u \in Uuids : Fetch(u)
  \/ \E u \in Uuids : FetchError(u)
  \/ \E u \in Uuids : TempWrite(u)
  \/ \E u \in Uuids : TempCreateError(u)
  \/ \E u \in Uuids : TempWriteError(u)
  \/ \E u \in Uuids : TranscodeStart(u)
  \/ \E u \in Uuids : TranscodeRefused(u)
  \/ \E u \in Uuids : TranscodeFinish(u)
  \/ \E u \in Uuids : TranscodeError(u)
  \/ \E u \in Uuids : MoveError(u)
  \/ \E u \in Uuids : Finally(u)
  \/ \E u \in Uuids : FinallyUnlinkError(u)
  \/ \E u \in Uuids : CollectFailed(u)
  \/ \E u \in Uuids : CollectTagged(u)
  \/ \E u \in Uuids : CollectTagError(u)
  \/ Return

\* the threads of the pool and the main thread keep running, and every
\* call of requests.get and of ffmpeg returns or raises
FairSpecPool == SpecPool /\ WF_vars(PoolStep)

TypeOK ==
  /\ variant \in Variants
  /\ pc \in {"start", "delete", "download", "done", "aborted", "fatal"}
  /\ run \in 1..MaxRuns
  /\ tmp \subseteq Uuids
  /\ stuck \subseteq tmp
  /\ \A n \in DOMAIN dir : dir[n] \in {"old", "partial", "full", "tagged"}

(* ------------------------------ properties ----------------------------- *)

uuids_on_ipod == DOMAIN ipod_by_uuid

uuids_from_pocketcasts == DOMAIN pocketcasts_by_uuid

\* uuids that are both remote and local: neither deleted nor downloaded
kept == uuids_on_ipod \cap uuids_from_pocketcasts

\* the plan of the current run has been computed
Planned == pc \in {"delete", "download", "done"}

\* C1: the uuids to delete, the uuids to download and the kept uuids are
\* pairwise disjoint and together are exactly the local and the remote
\* uuids (the code plans no rename, so that part of the plan is empty)
C1_Partition ==
  /\ uuids_to_delete \cap uuids_to_download = {}
  /\ uuids_to_delete \cap kept = {}
  /\ uuids_to_download \cap kept = {}
  /\ uuids_to_delete \cup uuids_to_download \cup kept
       = uuids_on_ipod \cup uuids_from_pocketcasts

C1_Witness ==
  /\ pc = "delete"
  /\ uuids_to_delete # {}
  /\ uuids_to_download # {}
  /\ kept # {}

\* C2: when every download of the previous run succeeded, the plan of the
\* next run against the same remote list is empty
C2_Idempotent ==
  (run > 1 /\ Planned /\ prev.succeeded) =>
     (uuids_to_delete = {} /\ uuids_to_download = {})

\* C3: the scanner's pattern recovers the uuid from the file name of
\* every remote episode, and episodes with different uuids have different
\* file names
C3_RoundTrip ==
  /\ \A u \in uuids_from_pocketcasts :
       /\ filename_regex_match(path(u))
       /\ group1(path(u)) = pocketcasts_by_uuid[u].uuid
  /\ \A u, v \in uuids_from_pocketcasts : u # v => path(u) # path(v)

\* the directory of the reorder scenario: 00_a and 01_b
ReorderedDir ==
  { <<"0", "0", "_", "a", ".", "m">>, <<"0", "1", "_", "b", ".", "m">> }

\* C4: a kept uuid whose file on disk is not named as its episode is
\* renamed by the run, so the file is at Episode.path at the end and no
\* longer at the old name; and the directory {00_a, 01_b} against the
\* remote list [b, a] leads to no delete and no download
C4_Renamed ==
  /\ pc = "done" =>
       \A u \in kept :
         ipod_by_uuid[u] # path(u) =>
           (path(u) \in DOMAIN dir /\ ipod_by_uuid[u] \notin DOMAIN dir)
  /\ (/\ Planned
      /\ DOMAIN dir0 = ReorderedDir
      /\ uuids_from_pocketcasts = {<<"a">>, <<"b">>})
       => (uuids_to_delete = {} /\ uuids_to_download = {})

\* C5: a file whose name the scanner does not parse is not in the index
\* and is in the directory with its content for the whole run, whatever
\* the remote list is
C5_UnparsedUntouched ==
  /\ \A u \in uuids_on_ipod : filename_regex_match(ipod_by_uuid[u])
  /\ \A n \in DOMAIN dir0 :
       ~ filename_regex_match(n) => (n \in DOMAIN dir /\ dir[n] = dir0[n])

\* a run has ended with a delete and a whole download behind it, next to
\* an unparsed file that has the name of an episode of the list, which
\* was handed to ffmpeg as its output and refused
C5_Witness ==
  /\ pc = "done"
  /\ uuids_to_delete # {}
  /\ \E u \in DOMAIN task : task[u] = "doneTrue"
  /\ \E u \in DOMAIN task :
       /\ path(u) \in DOMAIN dir0
       /\ ~ filename_regex_match(path(u))
       /\ fault[u] = "transcode"
       /\ task[u] = "doneFalse"

\* C6: a task fails only through a step of its own.  At the end of a run
\* every episode to download whose own steps all went well is reported as
\* a success with its whole file at Episode.path, every other one is
\* reported as a failure, the deleted files are still gone, and no failure
\* of a task ends the run before the results are in
C6_Isolation ==
  /\ pc = "done" =>
       /\ \A u \in uuids_to_download :
            /\ fault[u] = "none" =>
                 /\ task[u] = "doneTrue"
                 /\ path(u) \in DOMAIN dir
                 /\ dir[path(u)] \in {"full", "tagged"}
            /\ fault[u] # "none" => task[u] = "doneFalse"
       /\ \A u \in uuids_to_delete : ipod_by_uuid[u] \notin DOMAIN dir
  /\ pc = "aborted" => \A u \in DOMAIN task : task[u] = "pending"

C6_Witness ==
  /\ pc = "done"
  /\ variant = "desktop"
  /\ uuids_to_delete # {}
  /\ \E x, y \in uuids_to_download :
       /\ fault[x] = "fetch"
       /\ task[x] = "doneFalse"
       /\ task[y] = "doneTrue"
       /\ dir[path(y)] \in {"full", "tagged"}

\* C7: the path of an episode being downloaded never holds a part of the
\* file
C7_Atomic ==
  \A u \in DOMAIN task :
    path(u) \in DOMAIN dir => dir[path(u)] # "partial"

\* C8: every episode whose download failed in the previous run is to be
\* downloaded in this run
C8_FailedAgain ==
  (run > 1 /\ Planned) => prev.failed \subseteq uuids_to_download

\* the files of the run's first directory whose uuid is remote
KeptFiles ==
  { n \in DOMAIN dir0 :
      filename_regex_match(n) /\ group1(n) \in uuids_from_pocketcasts }

\* C9: a file whose uuid is in the remote list is in the directory with
\* the content it had when the run started
C9_KeptUnchanged ==
  \A n \in KeptFiles : n \in DOMAIN dir /\ dir[n] = dir0[n]

C9_Witness ==
  /\ pc = "done"
  /\ KeptFiles # {}
  /\ uuids_to_delete # {}
  /\ \E u \in DOMAIN task : task[u] = "doneFalse"

\* C10: a download task has started only when the delete loop has
\* visited every uuid to delete
C10_DeleteBeforeDownload ==
  (\E u \in DOMAIN task : task[u] # "pending") => undeleted = {}

C10_Witness ==
  /\ uuids_to_delete # {}
  /\ undeleted = {}
  /\ \A u \in uuids_to_delete : ipod_by_uuid[u] \notin DOMAIN dir
  /\ \E u \in DOMAIN task : task[u] = "fetching"

\* C11: a failing unlink does not end the run: the run never stops while
\* uuids to delete have still to be visited
C11_DeleteFailureContained ==
  pc \in {"aborted", "fatal"} => undeleted = {}

\* the files of the directory whose uuid is not in the remote list
StaleFiles ==
  { n \in parsable(dir) :
      \A i \in picked : response[i].uuid # group1(n) }

\* C13: a run that ends with a setup error has changed nothing: the
\* directory is as it was, no uuid was planned for deletion, no download
\* task exists and no temporary file was made
C13_FatalBeforeMutation ==
  pc = "fatal" =>
    /\ dir = dir0
    /\ tmp = {}
    /\ task = Empty
    /\ uuids_to_delete = {}

C13_Witness ==
  /\ pc = "fatal"
  /\ StaleFiles # {}
  /\ picked # {}

Min(S) == CHOOSE x \in S : \A y \in S : x <= y

\* C14: the record kept for a uuid that occurs several times among the
\* selected episodes is that of its first occurrence, and the uuid has one
\* download task at most
C14_FirstOccurrence ==
  Planned =>
    LET episodes  == up_next(response)
        positions == selected_positions(variant, episodes, picked)
    IN  /\ uuids_from_pocketcasts = { episodes[i].uuid : i \in positions }
        /\ \A u \in uuids_from_pocketcasts :
             pocketcasts_by_uuid[u] =
               episodes[Min({ i \in positions : episodes[i].uuid = u })]
        /\ DOMAIN task \subseteq uuids_from_pocketcasts

\* the uuids the scanner reads from a directory
parsed_uuids(d) == { group1(n) : n \in parsable(d) }

\* C15: after a run whose downloads all succeeded the uuids read from the
\* directory are the remote uuids and every remote episode is at its
\* Episode.path; the directory {00_a} against the remote list [a, b] leads
\* to the download of b alone; the directory {a, c} against the remote
\* list [a] leads to the deletion of c and no download
C15_Converged ==
  /\ (pc = "done" /\ \A u \in DOMAIN task : task[u] = "doneTrue") =>
       /\ parsed_uuids(dir) = uuids_from_pocketcasts
       /\ \A u \in uuids_from_pocketcasts : path(u) \in DOMAIN dir
  /\ (/\ Planned
      /\ DOMAIN dir0 = { <<"0", "0", "_", "a", ".", "m">> }
      /\ uuids_from_pocketcasts = {<<"a">>, <<"b">>})
       => (uuids_to_delete = {} /\ uuids_to_download = {<<"b">>})
  /\ (/\ Planned
      /\ DOMAIN dir0 = { <<"a", ".", "m">>, <<"c", ".", "m">> }
      /\ uuids_from_pocketcasts = {<<"a">>})
       => (uuids_to_delete = {<<"c">>} /\ uuids_to_download = {})

\* C18: once the delete loop has ended without error every file of the
\* directory that the scanner parses has a remote uuid
C18_NoStaleFileLeft ==
  pc \in {"download", "done"} =>
    parsed_uuids(dir) \subseteq uuids_from_pocketcasts

\* the call returned (True, episode)
Written == {"retTrue", "doneTrue"}

\* the call returned (False, episode)
Failed == {"retFalse", "doneFalse"}

\* a task reports success only with its whole file at Episode.path
SuccessIsCommitted ==
  \A u \in DOMAIN task :
    task[u] \in Written =>
      (path(u) \in DOMAIN dir /\ dir[path(u)] \in {"full", "tagged"})

\* the steps a task may take within a run
TaskTransition ==
  \A u \in DOMAIN task \cap DOMAIN task' :
    /\ task[u] = "pending" => task'[u] \in {"pending", "fetching"}
    /\ task[u] \in Active => task'[u] \in Active \cup Written \cup Failed
    /\ task[u] \in Written => task'[u] \in Written
    /\ task[u] \in Failed => task'[u] \in Failed
    /\ (task'[u] = "fetching" /\ task[u] # "fetching") => task[u] = "pending"

\* C16: a task goes from pending to fetching and from there to written or
\* to failed; written and failed are final within the run, so requests.get
\* is called once per episode, and a task is written only when its whole
\* file is at Episode.path
C16_TaskMachine == [] SuccessIsCommitted /\ [][TaskTransition]_vars

C16_Witness ==
  /\ pc = "done"
  /\ \E u, v \in DOMAIN task :
       /\ task[u] = "doneTrue"
       /\ dir[path(u)] \in {"full", "tagged"}
       /\ task[v] = "doneFalse"

\* a task that failed, also before its temporary file was made, ends as a
\* failure and does not end the run
FailureIsReturned ==
  \A u \in DOMAIN task :
    /\ (fault[u] # "none" /\ task[u] \notin Active) => task[u] \in Failed
    /\ fault[u] # "none" => pc \in {"download", "done"}

\* C19 (amended): once download_episode has returned, its temporary file
\* is gone unless os.unlink itself raised, in which case the exception is
\* swallowed and the file stays; a task that failed at any step, also
\* before the temporary file was made, returns a failure and does not
\* raise
C19_TempRemovedUnlessUnlinkFails ==
  /\ \A u \in DOMAIN task :
       (task[u] \in Returned \cup Collected /\ u \notin stuck) => u \notin tmp
  /\ pc = "done" => tmp \subseteq stuck
  /\ FailureIsReturned

\* C19: once download_episode has returned its temporary file is gone,
\* whatever step failed; a task that failed, also before the temporary
\* file was made, ends as a failure and does not end the run
C19_TempRemoved ==
  /\ \A u \in DOMAIN task :
       /\ task[u] \in Returned \cup Collected => u \notin tmp
       /\ (fault[u] # "none" /\ task[u] \notin Active) => task[u] \in Failed
       /\ fault[u] # "none" => pc \in {"download", "done"}
  /\ pc = "done" => tmp = {}

C19_Witness ==
  \E u, v \in DOMAIN task :
    /\ fault[u] = "fetch"
    /\ task[u] = "retFalse"
    /\ fault[v] = "transcode"
    /\ task[v] = "retFalse"
    /\ v \notin tmp
    /\ stuck = {}

\* the tasks that occupy a worker
Running == { u \in DOMAIN task : task[u] \in Active }

\* the number of calls of download_episode that may run at once
PoolSize == IF variant = "desktop" THEN Workers ELSE 1

\* C12: the tasks that are fetching or writing are never more than the
\* workers of the pool; the other episodes to download stay pending
C12_BoundedPool == Cardinality(Running) <= PoolSize

C12_Witness ==
  /\ variant = "desktop"
  /\ Cardinality(Running) = Workers
  /\ Cardinality(uuids_to_download) > Workers
  /\ \E u \in DOMAIN task : task[u] = "pending"

\* C17: once the pool is open the run reaches its end with one result,
\* success or failure, received for every episode to download
C17_PoolTerminates ==
  (pc = "download") ~>
     (pc = "done" /\ \A u \in uuids_to_download : task[u] \in Collected)

C17_Witness ==
  /\ pc = "done"
  /\ variant = "desktop"
  /\ Cardinality(uuids_to_download) > Workers
  /\ \E u, v \in uuids_to_download :
       task[u] = "doneTrue" /\ task[v] = "doneFalse"

====
